---- MODULE Spec2Model ----
(***************************************************************************)
(* A model of weather_bot.py: the recommendation engine                    *)
(* (get_health_recommendations, get_comprehensive_recommendations), the    *)
(* formatter (format_recommendations) and the request pipeline             *)
(* (get_weather_with_health_context with its two collaborators).           *)
(*                                                                         *)
(* Python values are modelled as follows.                                  *)
(*   dict   a function with a set of strings as domain ({} is <<>>)        *)
(*   list   a sequence                                                     *)
(*   str    a string; the emoji that opens an advisory text is written as  *)
(*          an ASCII shortcode between colons, because the module's        *)
(*          strings are ASCII.  An emoji holds no letter, so str.lower()   *)
(*          and the substring tests leave it alone, as they leave the      *)
(*          shortcodes alone (none of them holds a keyword).               *)
(*   None   the value None below                                           *)
(*   float  temperatures are integers: every threshold of the code is an   *)
(*          integer and the values on both sides of each are drawn.        *)
(***************************************************************************)
EXTENDS Integers, Sequences, FiniteSets, TLC

VARIABLES
    fn,               \* the function that was called
    pc,               \* where its execution stands
    weather_data,     \* the reading (an argument, or the local of line 234)
    user_profile,     \* the profile (an argument, or the local of line 247)
    recommendations,  \* the advisory (the local of line 101 or 251, or an argument)
    health_recs,      \* what get_health_recommendations returned
    text,             \* the text returned
    locals,           \* the other locals of get_weather_with_health_context
    trace,            \* the calls get_weather_with_health_context has made
    heap,             \* the objects of concurrent calls, by reference
    frames            \* the locals of each concurrent call

vars == <<fn, pc, weather_data, user_profile, recommendations, health_recs,
          text, locals, trace, heap, frames>>

None == [pytype |-> "NoneType"]

EmptyDict == <<>>

(***************************************************************************)
(* Python built-ins the code uses.                                         *)
(***************************************************************************)

\* dict.get(key, default)
Get(d, key, default) == IF key \in DOMAIN d THEN d[key] ELSE default

\* the truth value of a profile: None and {} are false
Truthy(v) == v # None /\ DOMAIN v # {}

UpperCase == "ABCDEFGHIJKLMNOPQRSTUVWXYZ"

LowerCase == "abcdefghijklmnopqrstuvwxyz"

\* the lower-case letter of every upper-case letter
LowerMap ==
    LET letter(i) == SubSeq(UpperCase, i, i)
    IN  [c \in {letter(i) : i \in 1..Len(UpperCase)} |->
            LET i == CHOOSE j \in 1..Len(UpperCase) : letter(j) = c
            IN  SubSeq(LowerCase, i, i)]

LowerChar(c) == IF c \in DOMAIN LowerMap THEN LowerMap[c] ELSE c

RECURSIVE Lower(_)
\* str.lower()
Lower(s) == IF s = "" THEN "" ELSE LowerChar(Head(s)) \o Lower(Tail(s))

\* sub in s
Contains(sub, s) ==
    \E i \in 1..(Len(s) - Len(sub) + 1) : SubSeq(s, i, i + Len(sub) - 1) = sub

RECURSIVE Join(_)
\* "\n".join(lines)
Join(lines) ==
    IF lines = <<>> THEN ""
    ELSE IF Len(lines) = 1 THEN lines[1]
    ELSE lines[1] \o "\n" \o Join(Tail(lines))

(***************************************************************************)
(* The advisory texts.                                                     *)
(***************************************************************************)

AsthmaHumidityAdvice ==
    ":warning: High humidity may affect your asthma. Consider staying indoors."

AsthmaDampAdvice ==
    ":cloud: Damp conditions may trigger asthma. Keep inhaler handy."

HeartHotAdvice ==
    ":heart: High temperature may strain your heart. Stay in air-conditioned spaces."

HeartColdAdvice ==
    ":snowflake: Cold weather can affect blood pressure. Stay warm and avoid overexertion."

DiabetesHeatAdvice ==
    ":chart: Heat can affect blood sugar levels. Check levels more frequently."

DiabetesHumidityAdvice ==
    ":droplet: High humidity can affect insulin absorption. Monitor closely."

ColdAdvice ==
    ":thermometer: Temperature is low and you're sensitive to cold. Bundle up well."

HeatAdvice ==
    ":sun: Temperature is high and you're heat-sensitive. Stay hydrated and in shade."

HumidityAdvice ==
    ":droplet: High humidity detected. Use dehumidifier indoors if possible."

AirQualityAdvice == ":mask: Poor air quality. Consider wearing a mask outdoors."

PollenAdvice == ":blossom: High pollen risk today. Take antihistamines if needed."

DustAdvice == ":dash: Windy conditions may stir up dust. Wear a mask if needed."

MaskOverride == ":mask: Consider wearing a mask due to poor air quality"

HotActivities ==
    << ":x: Avoid strenuous outdoor activities",
       ":check: Indoor swimming",
       ":check: Indoor gym workouts",
       ":check: Mall walking",
       ":check: Indoor sports" >>

HotFood ==
    << ":cup: Drink plenty of water (at least 3-4 liters)",
       ":salad: Light meals with high water content",
       ":apple: Fresh fruits and vegetables",
       ":salt: Electrolyte-rich drinks",
       ":x: Avoid heavy, spicy foods" >>

HotGeneral ==
    << ":clock: Plan activities early morning or late evening",
       ":shirt: Wear light, breathable clothing",
       ":lotion: Use sunscreen (SPF 50+)",
       ":glasses: Wear sunglasses and a hat" >>

WarmActivities ==
    << ":check: Swimming",
       ":check: Early morning/late evening walks",
       ":check: Beach activities (with proper protection)",
       ":warning: Moderate outdoor activities" >>

WarmFood ==
    << ":cup: Stay well hydrated",
       ":salad: Fresh salads",
       ":orange: Seasonal fruits",
       ":cup: Sports drinks for outdoor activities" >>

MildActivities ==
    << ":check: Most outdoor activities are comfortable",
       ":check: Walking, jogging, cycling",
       ":check: Outdoor sports",
       ":check: Sightseeing" >>

MildFood ==
    << ":cup: Regular water intake",
       ":plate: Regular balanced meals",
       ":sandwich: Pack snacks for outdoor activities" >>

RainGeneral ==
    << ":umbrella: Carry an umbrella",
       ":coat: Wear waterproof clothing",
       ":shoe: Wear appropriate footwear" >>

ClearGeneral ==
    << ":glasses: Wear sunglasses",
       ":lotion: Apply sunscreen",
       ":hat: Wear a hat for sun protection" >>

OutdoorKeywords == <<"outdoor", "outside", "beach">>

HealthHeading == ":hospital: Health Recommendations:"

ActivityHeading == ":runner: Activity Recommendations:"

FoodHeading == ":plate: Food & Hydration Advice:"

GeneralHeading == ":bulb: General Advice:"

(***************************************************************************)
(* get_health_recommendations (lines 45-93).                               *)
(***************************************************************************)

\* ForCondition with the last elif written as a plain else: a label that is
\* neither asthma nor heart condition is taken for diabetes
ForConditionElseDiabetes(label, wd) ==
    LET condition  == Lower(label)
        temp       == wd["temp"]
        humidity   == wd["humidity"]
        conditions == Lower(wd["description"])
    IN  IF condition = "asthma"
        THEN (IF humidity > 70 THEN <<AsthmaHumidityAdvice>> ELSE <<>>)
             \o (IF Contains("rain", conditions) \/ Contains("mist", conditions)
                 THEN <<AsthmaDampAdvice>> ELSE <<>>)
        ELSE IF condition = "heart condition"
        THEN (IF temp > 30 THEN <<HeartHotAdvice>>
              ELSE IF temp < 5 THEN <<HeartColdAdvice>>
              ELSE <<>>)
        ELSE (IF temp > 30 THEN <<DiabetesHeatAdvice>> ELSE <<>>)
             \o (IF humidity > 80 THEN <<DiabetesHumidityAdvice>> ELSE <<>>)

\* lines 54-69: the body of the loop over health_conditions
ForCondition(label, wd) ==
    LET condition  == Lower(label)
        temp       == wd["temp"]
        humidity   == wd["humidity"]
        conditions == Lower(wd["description"])
    IN  IF condition = "asthma"
        THEN (IF humidity > 70 THEN <<AsthmaHumidityAdvice>> ELSE <<>>)
             \o (IF Contains("rain", conditions) \/ Contains("mist", conditions)
                 THEN <<AsthmaDampAdvice>> ELSE <<>>)
        ELSE IF condition = "heart condition"
        THEN (IF temp > 30 THEN <<HeartHotAdvice>>
              ELSE IF temp < 5 THEN <<HeartColdAdvice>>
              ELSE <<>>)
        ELSE IF condition = "diabetes"
        THEN (IF temp > 30 THEN <<DiabetesHeatAdvice>> ELSE <<>>)
             \o (IF humidity > 80 THEN <<DiabetesHumidityAdvice>> ELSE <<>>)
        ELSE <<>>

RECURSIVE ConditionLoop(_, _)
\* line 53: for condition in user_profile.get('health_conditions', [])
ConditionLoop(labels, wd) ==
    IF labels = <<>> THEN <<>>
    ELSE ForCondition(Head(labels), wd) \o ConditionLoop(Tail(labels), wd)

\* lines 73-81: the body of the loop over weather_sensitivities
ForSensitivity(label, wd) ==
    LET sensitivity == Lower(label)
        temp        == wd["temp"]
        humidity    == wd["humidity"]
    IN  IF sensitivity = "cold" /\ temp < 10 THEN <<ColdAdvice>>
        ELSE IF sensitivity = "heat" /\ temp > 28 THEN <<HeatAdvice>>
        ELSE IF sensitivity = "humidity" /\ humidity > 70 THEN <<HumidityAdvice>>
        ELSE IF sensitivity = "air quality" /\ Get(wd, "air_quality", 0) > 100
        THEN <<AirQualityAdvice>>
        ELSE <<>>

RECURSIVE SensitivityLoopFirstMatch(_, _)
\* SensitivityLoop leaving the loop at the first sensitivity whose rule fires
SensitivityLoopFirstMatch(labels, wd) ==
    IF labels = <<>> THEN <<>>
    ELSE IF ForSensitivity(Head(labels), wd) # <<>>
    THEN ForSensitivity(Head(labels), wd)
    ELSE SensitivityLoopFirstMatch(Tail(labels), wd)

RECURSIVE SensitivityLoop(_, _)
\* line 72: for sensitivity in user_profile.get('weather_sensitivities', [])
SensitivityLoop(labels, wd) ==
    IF labels = <<>> THEN <<>>
    ELSE ForSensitivity(Head(labels), wd) \o SensitivityLoop(Tail(labels), wd)

\* lines 85-91: the body of the loop over allergies
ForAllergy(label, wd) ==
    LET allergy    == Lower(label)
        conditions == Lower(wd["description"])
    IN  IF allergy = "pollen"
        THEN (IF Contains("clear", conditions) \/ Contains("sunny", conditions)
              THEN <<PollenAdvice>> ELSE <<>>)
        ELSE IF allergy = "dust"
        THEN (IF Contains("windy", conditions) THEN <<DustAdvice>> ELSE <<>>)
        ELSE <<>>

RECURSIVE AllergyLoop(_, _)
\* line 84: for allergy in user_profile.get('allergies', [])
AllergyLoop(labels, wd) ==
    IF labels = <<>> THEN <<>>
    ELSE ForAllergy(Head(labels), wd) \o AllergyLoop(Tail(labels), wd)

GetHealthRecommendations(wd, up) ==
    IF Truthy(up)
    THEN ConditionLoop(Get(up, "health_conditions", <<>>), wd)
         \o SensitivityLoop(Get(up, "weather_sensitivities", <<>>), wd)
         \o AllergyLoop(Get(up, "allergies", <<>>), wd)
    ELSE <<>>

(***************************************************************************)
(* get_comprehensive_recommendations (lines 95-181), one operator per      *)
(* block of the function, each from the accumulator to the accumulator.    *)
(***************************************************************************)

\* lines 101-106
NewRecommendations ==
    [health_advice |-> <<>>, activities |-> <<>>,
     food_suggestions |-> <<>>, general_advice |-> <<>>]

\* TemperatureBand with the warm band's bounds exclusive
TemperatureBandExclusive(recs, wd) ==
    LET temp == wd["temp"]
    IN  IF temp > 35
        THEN [recs EXCEPT !.activities = @ \o HotActivities,
                          !.food_suggestions = @ \o HotFood,
                          !.general_advice = @ \o HotGeneral]
        ELSE IF 25 < temp /\ temp < 35
        THEN [recs EXCEPT !.activities = @ \o WarmActivities,
                          !.food_suggestions = @ \o WarmFood]
        ELSE [recs EXCEPT !.activities = @ \o MildActivities,
                          !.food_suggestions = @ \o MildFood]

\* lines 109-154
TemperatureBand(recs, wd) ==
    LET temp == wd["temp"]
    IN  IF temp > 35
        THEN [recs EXCEPT !.activities = @ \o HotActivities,
                          !.food_suggestions = @ \o HotFood,
                          !.general_advice = @ \o HotGeneral]
        ELSE IF 25 <= temp /\ temp <= 35
        THEN [recs EXCEPT !.activities = @ \o WarmActivities,
                          !.food_suggestions = @ \o WarmFood]
        ELSE [recs EXCEPT !.activities = @ \o MildActivities,
                          !.food_suggestions = @ \o MildFood]

\* lines 157-159
HealthStage(recs, wd, up) ==
    IF Truthy(up)
    THEN [recs EXCEPT !.health_advice = @ \o GetHealthRecommendations(wd, up)]
    ELSE recs

\* lines 162-173
ConditionStage(recs, wd) ==
    LET conditions == Lower(wd["description"])
    IN  IF Contains("rain", conditions)
        THEN [recs EXCEPT !.general_advice = @ \o RainGeneral]
        ELSE IF Contains("clear", conditions)
        THEN [recs EXCEPT !.general_advice = @ \o ClearGeneral]
        ELSE recs

\* IsOutdoor without act.lower()
IsOutdoorCaseSensitive(act) ==
    \E k \in 1..Len(OutdoorKeywords) : Contains(OutdoorKeywords[k], act)

\* line 179: any(outdoor in act.lower() for outdoor in [...])
IsOutdoor(act) ==
    LET lowered == Lower(act)
    IN  \E k \in 1..Len(OutdoorKeywords) : Contains(OutdoorKeywords[k], lowered)

\* AirQualityStage putting the override first: insert(0, ...) for append(...)
AirQualityStagePrepend(recs, wd) ==
    IF Get(wd, "air_quality", 0) > 100
    THEN [recs EXCEPT !.health_advice = <<MaskOverride>> \o @,
                      !.activities = SelectSeq(@, LAMBDA act : ~IsOutdoor(act))]
    ELSE recs

\* lines 176-179
AirQualityStage(recs, wd) ==
    IF Get(wd, "air_quality", 0) > 100
    THEN [recs EXCEPT !.health_advice = Append(@, MaskOverride),
                      !.activities = SelectSeq(@, LAMBDA act : ~IsOutdoor(act))]
    ELSE recs

GetComprehensiveRecommendations(wd, up) ==
    AirQualityStage(
        ConditionStage(
            HealthStage(TemperatureBand(NewRecommendations, wd), wd, up), wd), wd)

(***************************************************************************)
(* format_recommendations (lines 183-205).                                 *)
(***************************************************************************)

\* HealthSection without the test of line 186
HealthSectionAlways(recs) ==
    <<HealthHeading>> \o recs.health_advice \o <<"">>

\* lines 186-189
HealthSection(recs) ==
    IF recs.health_advice # <<>>
    THEN <<HealthHeading>> \o recs.health_advice \o <<"">>
    ELSE <<>>

\* lines 191-194
ActivitySection(recs) ==
    IF recs.activities # <<>>
    THEN <<ActivityHeading>> \o recs.activities \o <<"">>
    ELSE <<>>

\* lines 196-199
FoodSection(recs) ==
    IF recs.food_suggestions # <<>>
    THEN <<FoodHeading>> \o recs.food_suggestions \o <<"">>
    ELSE <<>>

\* lines 201-203
GeneralSection(recs) ==
    IF recs.general_advice # <<>>
    THEN <<GeneralHeading>> \o recs.general_advice
    ELSE <<>>

FormatRecommendations(recs) ==
    Join(HealthSection(recs) \o ActivitySection(recs)
         \o FoodSection(recs) \o GeneralSection(recs))

(***************************************************************************)
(* The inputs that are drawn.  The numbers lie on both sides of every      *)
(* threshold of the code (5, 10, 25, 28, 30, 35; 70, 80; 100).             *)
(***************************************************************************)

MaxConditions == 2

MaxSensitivities == 2

MaxAllergies == 1

MaxSensitivityList == 4

MaxEntries == 2

SeqsUpTo(S, n) == UNION {[1..k -> S] : k \in 0..n}

TempValues == {-3, 4, 5, 9, 10, 24, 25, 28, 29, 30, 31, 35, 36, 38}

HumidityValues == {40, 70, 71, 80, 81}

AirQualityValues == {0, 100, 101, 150}

Descriptions ==
    {"light rain", "Clear sky", "mist", "sunny", "windy", "overcast clouds",
     "rain then clear"}

\* lines 218-223: the reading get_weather_data builds (no air_quality key)
Reading(t, h, d) ==
    [temp |-> t, humidity |-> h, description |-> d, wind_speed |-> 3]

\* a reading that carries the optional air_quality key (lines 80, 176)
ReadingAQ(t, h, d, aq) ==
    [temp |-> t, humidity |-> h, description |-> d, wind_speed |-> 3,
     air_quality |-> aq]

Readings ==
    {Reading(t, h, d) : t \in TempValues, h \in HumidityValues, d \in Descriptions}
    \cup {ReadingAQ(t, h, d, aq) : t \in {-3, 24, 25, 31, 35, 36},
                                   h \in {40, 81}, d \in Descriptions,
                                   aq \in AirQualityValues}

Profile(hc, ws, al) ==
    [health_conditions |-> hc, weather_sensitivities |-> ws, allergies |-> al]

UnrecognizedProfiles ==
    {Profile(<<>>, <<>>, <<>>),
     Profile(<<"migraine">>, <<"pressure">>, <<"peanuts">>),
     Profile(<<"Asthmatic", "heart">>, <<"hot", "air">>, <<"pollen count">>)}

BaseProfiles ==
    {None, EmptyDict,
     [health_conditions |-> <<"asthma">>],
     Profile(<<"Asthma", "heart condition", "diabetes">>,
             <<"cold", "heat", "humidity", "air quality">>,
             <<"Pollen", "dust">>)}
    \cup UnrecognizedProfiles

RichProfiles ==
    {Profile(hc, ws, al) :
        hc \in SeqsUpTo({"asthma", "Heart Condition", "diabetes"}, MaxConditions),
        ws \in SeqsUpTo({"heat", "Humidity", "air quality"}, MaxSensitivities),
        al \in SeqsUpTo({"pollen", "Dust"}, MaxAllergies)}

RichReadings ==
    {ReadingAQ(31, 81, "light rain", 150), ReadingAQ(4, 71, "Clear sky", 101),
     ReadingAQ(29, 75, "sunny and windy", 100), Reading(38, 75, "clear sky"),
     ReadingAQ(38, 90, "windy, mist", 150)}

EngineInputs == (Readings \X BaseProfiles) \cup (RichReadings \X RichProfiles)

SensitivityLabels == {"cold", "heat", "humidity", "air quality"}

MixedCase(label) ==
    CASE label = "cold" -> "Cold"
      [] label = "heat" -> "HEAT"
      [] label = "humidity" -> "Humidity"
      [] label = "air quality" -> "Air Quality"

SensitivityProfiles ==
    LET lists == SeqsUpTo(SensitivityLabels, MaxSensitivityList)
    IN  {[weather_sensitivities |-> l] : l \in lists}
        \cup {[weather_sensitivities |-> [i \in DOMAIN l |-> MixedCase(l[i])]] :
                 l \in lists}

SensitivityReadings ==
    {Reading(t, 70, "overcast clouds") : t \in {9, 10, 28, 30}}
    \cup {ReadingAQ(t, 80, "overcast clouds", aq) :
             t \in {9, 10, 28, 30}, aq \in {100, 150}}

HealthInputs == SensitivityReadings \X SensitivityProfiles

Advisories ==
    [health_advice    : SeqsUpTo({AsthmaHumidityAdvice, MaskOverride}, MaxEntries),
     activities       : SeqsUpTo({MildActivities[2], MildActivities[4]}, MaxEntries),
     food_suggestions : SeqsUpTo({WarmFood[1], WarmFood[2]}, MaxEntries),
     general_advice   : SeqsUpTo({RainGeneral[1], ClearGeneral[1]}, MaxEntries)]

(***************************************************************************)
(* Spec: one call of one of the three pure functions, on drawn arguments.  *)
(***************************************************************************)

Idle == locals = <<>> /\ trace = <<>> /\ heap = <<>> /\ frames = <<>>

Init ==
    /\ pc = "call"
    /\ health_recs = <<>>
    /\ text = ""
    /\ Idle
    /\ \/ /\ fn = "get_comprehensive_recommendations"
          /\ \E in \in EngineInputs : weather_data = in[1] /\ user_profile = in[2]
          /\ recommendations = None
       \/ /\ fn = "get_health_recommendations"
          /\ \E in \in HealthInputs : weather_data = in[1] /\ user_profile = in[2]
          /\ recommendations = None
       \/ /\ fn = "format_recommendations"
          /\ weather_data = None
          /\ user_profile = None
          /\ recommendations \in Advisories

Generate ==
    /\ fn = "get_comprehensive_recommendations" /\ pc = "call"
    /\ recommendations' = GetComprehensiveRecommendations(weather_data, user_profile)
    /\ pc' = "return"
    /\ UNCHANGED <<fn, weather_data, user_profile, health_recs, text, locals,
                   trace, heap, frames>>

Health ==
    /\ fn = "get_health_recommendations" /\ pc = "call"
    /\ health_recs' = GetHealthRecommendations(weather_data, user_profile)
    /\ pc' = "return"
    /\ UNCHANGED <<fn, weather_data, user_profile, recommendations, text, locals,
                   trace, heap, frames>>

Format ==
    /\ fn = "format_recommendations" /\ pc = "call"
    /\ text' = FormatRecommendations(recommendations)
    /\ pc' = "return"
    /\ UNCHANGED <<fn, weather_data, user_profile, recommendations, health_recs,
                   locals, trace, heap, frames>>

Next == Generate \/ Health \/ Format

Spec == Init /\ [][Next]_vars

(***************************************************************************)
(* SpecContext: one run of get_weather_with_health_context (lines          *)
(* 233-255), a step for each call it makes and each branch it takes, with  *)
(* get_weather_data (lines 207-231) and get_user_profile (lines 36-43).    *)
(* What the weather provider answers and what the profile store answers    *)
(* are outside the program: every answer is drawn.                         *)
(***************************************************************************)

Str(v) == [pytype |-> "str", value |-> v]

\* the truth value of user_id: None and "" are false
TruthyId(v) == v # None /\ v.value # ""

Digits == "0123456789"

RECURSIVE NatToStr(_)
NatToStr(n) ==
    IF n < 10 THEN SubSeq(Digits, n + 1, n + 1)
    ELSE NatToStr(n \div 10) \o SubSeq(Digits, (n % 10) + 1, (n % 10) + 1)

\* an integer as an f-string shows it
IntToStr(n) == IF n < 0 THEN "-" \o NatToStr(0 - n) ELSE NatToStr(n)

\* lines 228, 231
ErrorValue == [error |-> "Failed to fetch weather data."]

\* line 236: str(weather_data) of the error value
ErrorText == "{'error': 'Failed to fetch weather data.'}"

\* what the provider may answer: an HTTP error status, a body that lacks a
\* field, or a body with the four fields read at lines 219-222
ProviderResponses ==
    {[status |-> "http_error", body |-> EmptyDict],
     [status |-> "ok", body |-> EmptyDict],
     [status |-> "ok", body |-> [temp |-> 30, description |-> "mist"]]}
    \cup {[status |-> "ok", body |-> Reading(t, h, d)] :
             t \in {4, 30, 36}, h \in {40, 81}, d \in {"light rain", "mist"}}

\* lines 207-231: raise_for_status raises HTTPError, a missing field raises
\* KeyError, and both handlers return the error value
GetWeatherData(response) ==
    IF response.status = "http_error" THEN ErrorValue
    ELSE IF {"temp", "description", "humidity", "wind_speed"} \subseteq
               DOMAIN response.body
    THEN [temp |-> response.body["temp"],
          description |-> response.body["description"],
          humidity |-> response.body["humidity"],
          wind_speed |-> response.body["wind_speed"]]
    ELSE ErrorValue

StoreRecords ==
    {Profile(<<"asthma">>, <<"humidity">>, <<"pollen">>),
     Profile(<<"heart condition", "diabetes">>, <<"cold">>, <<>>),
     EmptyDict}

\* what awaiting the query of line 39 may give: a result with its data, a
\* false result, or an exception
StoreOutcomes ==
    {[kind |-> "result", data |-> r] : r \in StoreRecords}
    \cup {[kind |-> "nothing", data |-> None], [kind |-> "exception", data |-> None]}

\* get_user_profile handing the error on instead of None
GetUserProfilePropagating(outcome) ==
    IF outcome.kind = "result" THEN outcome.data
    ELSE IF outcome.kind = "nothing" THEN None
    ELSE [error |-> "Error fetching user profile"]

\* lines 36-43
GetUserProfile(outcome) ==
    IF outcome.kind = "result" THEN outcome.data
    ELSE IF outcome.kind = "nothing" THEN None
    ELSE None

\* lines 238-245
ResponseParts(city, wd) ==
    << ":thermometer: Current weather in " \o city \o ":",
       "Temperature: " \o IntToStr(wd["temp"]) \o ":degree:C",
       "Conditions: " \o wd["description"],
       "Humidity: " \o IntToStr(wd["humidity"]) \o "%",
       "Wind Speed: " \o IntToStr(wd["wind_speed"]) \o " m/s",
       "" >>

InitContext ==
    /\ fn = "get_weather_with_health_context"
    /\ pc = "L234"
    /\ weather_data = None
    /\ user_profile = None
    /\ recommendations = None
    /\ health_recs = <<>>
    /\ text = ""
    /\ \E uid \in {None, Str(""), Str("u1")} :
          locals = [city |-> "Chennai", user_id |-> uid, response_parts |-> <<>>,
                    formatted_recommendations |-> ""]
    /\ trace = <<>>
    /\ heap = <<>>
    /\ frames = <<>>

\* line 234
FetchWeather ==
    /\ fn = "get_weather_with_health_context" /\ pc = "L234"
    /\ \E response \in ProviderResponses :
          /\ weather_data' = GetWeatherData(response)
          /\ trace' = Append(trace, [call |-> "get_weather_data",
                                     returned |-> weather_data'])
    /\ pc' = "L235"
    /\ UNCHANGED <<fn, user_profile, recommendations, health_recs, text, locals,
                   heap, frames>>

\* lines 235-236
ReturnError ==
    /\ fn = "get_weather_with_health_context" /\ pc = "L235"
    /\ "error" \in DOMAIN weather_data
    /\ text' = ErrorText
    /\ pc' = "return"
    /\ UNCHANGED <<fn, weather_data, user_profile, recommendations, health_recs,
                   locals, trace, heap, frames>>

\* lines 235, 238-247
BuildResponseParts ==
    /\ fn = "get_weather_with_health_context" /\ pc = "L235"
    /\ "error" \notin DOMAIN weather_data
    /\ locals' = [locals EXCEPT
                     !.response_parts = ResponseParts(locals.city, weather_data)]
    /\ user_profile' = None
    /\ pc' = "L248"
    /\ UNCHANGED <<fn, weather_data, recommendations, health_recs, text, trace,
                   heap, frames>>

\* lines 248-249, with a user id
LookupProfile ==
    /\ fn = "get_weather_with_health_context" /\ pc = "L248"
    /\ TruthyId(locals.user_id)
    /\ \E outcome \in StoreOutcomes :
          /\ user_profile' = GetUserProfile(outcome)
          /\ trace' = Append(trace, [call |-> "get_user_profile",
                                     outcome |-> outcome,
                                     returned |-> user_profile'])
    /\ pc' = "L251"
    /\ UNCHANGED <<fn, weather_data, recommendations, health_recs, text, locals,
                   heap, frames>>

\* line 248, without a user id
SkipProfile ==
    /\ fn = "get_weather_with_health_context" /\ pc = "L248"
    /\ ~TruthyId(locals.user_id)
    /\ pc' = "L251"
    /\ UNCHANGED <<fn, weather_data, user_profile, recommendations, health_recs,
                   text, locals, trace, heap, frames>>

\* line 251
CallEngine ==
    /\ fn = "get_weather_with_health_context" /\ pc = "L251"
    /\ recommendations' = GetComprehensiveRecommendations(weather_data, user_profile)
    /\ trace' = Append(trace, [call |-> "get_comprehensive_recommendations",
                               weather_data |-> weather_data,
                               user_profile |-> user_profile,
                               returned |-> recommendations'])
    /\ pc' = "L252"
    /\ UNCHANGED <<fn, weather_data, user_profile, health_recs, text, locals,
                   heap, frames>>

\* line 252
CallFormatter ==
    /\ fn = "get_weather_with_health_context" /\ pc = "L252"
    /\ locals' = [locals EXCEPT !.formatted_recommendations =
                                    FormatRecommendations(recommendations)]
    /\ trace' = Append(trace, [call |-> "format_recommendations",
                               recommendations |-> recommendations,
                               returned |-> locals'.formatted_recommendations])
    /\ pc' = "L253"
    /\ UNCHANGED <<fn, weather_data, user_profile, recommendations, health_recs,
                   text, heap, frames>>

\* lines 253-255
ReturnResponse ==
    /\ fn = "get_weather_with_health_context" /\ pc = "L253"
    /\ text' = Join(Append(locals.response_parts, locals.formatted_recommendations))
    /\ pc' = "return"
    /\ UNCHANGED <<fn, weather_data, user_profile, recommendations, health_recs,
                   locals, trace, heap, frames>>

NextContext ==
    \/ FetchWeather
    \/ ReturnError
    \/ BuildResponseParts
    \/ LookupProfile
    \/ SkipProfile
    \/ CallEngine
    \/ CallFormatter
    \/ ReturnResponse

SpecContext == InitContext /\ [][NextContext]_vars

(***************************************************************************)
(* SpecConcurrent: two calls of get_comprehensive_recommendations whose    *)
(* statements interleave in any order (two requests served at the same     *)
(* time).  Dicts are objects on a heap and the calls hold references: the  *)
(* reading and the profile each call was given, which the two calls may    *)
(* share, and the accumulator line 101 creates.                            *)
(***************************************************************************)

Calls == {1, 2}

ConcurrentReadings ==
    {ReadingAQ(36, 81, "light rain", 150), Reading(30, 40, "Clear sky"),
     ReadingAQ(4, 75, "mist", 101)}

ConcurrentProfiles ==
    {None,
     Profile(<<"asthma", "diabetes">>, <<"humidity", "air quality">>, <<"pollen">>)}

\* the heap with object ref holding val
Store(h, ref, val) ==
    [r \in (DOMAIN h) \cup {ref} |-> IF r = ref THEN val ELSE h[r]]

\* the accumulator kept in one module-level dict that every call reuses
AllocRefShared(h) == 2 * Cardinality(Calls) + 1

\* line 101: the dict display creates a new object at every call
AllocRef(h) == Len(h) + 1

Frame(wd, up, given) ==
    [pc |-> "L96", weather_data |-> wd, user_profile |-> up,
     temp |-> 0, humidity |-> 0, conditions |-> "",
     recommendations |-> 0, health_recs |-> <<>>,
     given |-> given, overlapped |-> FALSE]

InitConcurrent ==
    /\ fn = "get_comprehensive_recommendations"
    /\ pc = "concurrent"
    /\ weather_data = None
    /\ user_profile = None
    /\ recommendations = None
    /\ health_recs = <<>>
    /\ text = ""
    /\ locals = <<>>
    /\ trace = <<>>
    /\ \E r1 \in ConcurrentReadings, p1 \in ConcurrentProfiles,
          r2 \in ConcurrentReadings, p2 \in ConcurrentProfiles :
          /\ heap = <<r1, p1, r2, p2>>
          /\ \/ frames = [c \in Calls |->
                            Frame(2 * c - 1, 2 * c,
                                  [weather_data |-> heap[2 * c - 1],
                                   user_profile |-> heap[2 * c]])]
             \/ frames = [c \in Calls |->
                            Frame(1, 2, [weather_data |-> r1, user_profile |-> p1])]

Running(c) == frames[c].pc \notin {"L96", "return"}

\* call c goes on with locals f
Step(c, f) ==
    frames' = [frames EXCEPT ![c] =
                  [f EXCEPT !.overlapped = @ \/ \E d \in Calls \ {c} : Running(d)]]

Accumulator(c) == heap[frames[c].recommendations]

SetAccumulator(c, val) == heap' = Store(heap, frames[c].recommendations, val)

Untouched ==
    UNCHANGED <<fn, pc, weather_data, user_profile, recommendations, health_recs,
                text, locals, trace>>

\* lines 96-98
BindLocals(c) ==
    /\ frames[c].pc = "L96"
    /\ LET wd == heap[frames[c].weather_data]
       IN  Step(c, [frames[c] EXCEPT !.temp = wd["temp"],
                                      !.humidity = wd["humidity"],
                                      !.conditions = Lower(wd["description"]),
                                      !.pc = "L101"])
    /\ UNCHANGED heap
    /\ Untouched

\* lines 101-106
NewAccumulator(c) ==
    /\ frames[c].pc = "L101"
    /\ LET ref == AllocRef(heap)
       IN  /\ heap' = Store(heap, ref, NewRecommendations)
           /\ Step(c, [frames[c] EXCEPT !.recommendations = ref, !.pc = "L109"])
    /\ Untouched

\* the tests of lines 109, 130, 143
ChooseBand(c) ==
    /\ frames[c].pc = "L109"
    /\ LET temp == frames[c].temp
       IN  Step(c, [frames[c] EXCEPT !.pc =
                       IF temp > 35 THEN "L110"
                       ELSE IF 25 <= temp /\ temp <= 35 THEN "L131"
                       ELSE "L144"])
    /\ UNCHANGED heap
    /\ Untouched

\* lines 110-116, 131-136, 144-149
ExtendActivities(c) ==
    /\ frames[c].pc \in {"L110", "L131", "L144"}
    /\ LET at   == frames[c].pc
           list == IF at = "L110" THEN HotActivities
                   ELSE IF at = "L131" THEN WarmActivities ELSE MildActivities
       IN  /\ SetAccumulator(c, [Accumulator(c) EXCEPT !.activities = @ \o list])
           /\ Step(c, [frames[c] EXCEPT !.pc =
                          IF at = "L110" THEN "L117"
                          ELSE IF at = "L131" THEN "L137" ELSE "L150"])
    /\ Untouched

\* lines 117-123, 137-142, 150-154
ExtendFood(c) ==
    /\ frames[c].pc \in {"L117", "L137", "L150"}
    /\ LET at   == frames[c].pc
           list == IF at = "L117" THEN HotFood
                   ELSE IF at = "L137" THEN WarmFood ELSE MildFood
       IN  /\ SetAccumulator(c, [Accumulator(c) EXCEPT !.food_suggestions = @ \o list])
           /\ Step(c, [frames[c] EXCEPT !.pc = IF at = "L117" THEN "L124" ELSE "L157"])
    /\ Untouched

\* lines 124-129
ExtendGeneral(c) ==
    /\ frames[c].pc = "L124"
    /\ SetAccumulator(c, [Accumulator(c) EXCEPT !.general_advice = @ \o HotGeneral])
    /\ Step(c, [frames[c] EXCEPT !.pc = "L157"])
    /\ Untouched

\* line 157
TestProfile(c) ==
    /\ frames[c].pc = "L157"
    /\ Step(c, [frames[c] EXCEPT !.pc =
                   IF Truthy(heap[frames[c].user_profile]) THEN "L158" ELSE "L162"])
    /\ UNCHANGED heap
    /\ Untouched

\* line 158
CallHealth(c) ==
    /\ frames[c].pc = "L158"
    /\ Step(c, [frames[c] EXCEPT
                   !.health_recs =
                       GetHealthRecommendations(heap[frames[c].weather_data],
                                                heap[frames[c].user_profile]),
                   !.pc = "L159"])
    /\ UNCHANGED heap
    /\ Untouched

\* line 159
ExtendHealth(c) ==
    /\ frames[c].pc = "L159"
    /\ SetAccumulator(c, [Accumulator(c) EXCEPT
                             !.health_advice = @ \o frames[c].health_recs])
    /\ Step(c, [frames[c] EXCEPT !.pc = "L162"])
    /\ Untouched

\* the tests of lines 162, 168
TestConditions(c) ==
    /\ frames[c].pc = "L162"
    /\ Step(c, [frames[c] EXCEPT !.pc =
                   IF Contains("rain", frames[c].conditions) THEN "L163"
                   ELSE IF Contains("clear", frames[c].conditions) THEN "L169"
                   ELSE "L176"])
    /\ UNCHANGED heap
    /\ Untouched

\* lines 163-167
ExtendRain(c) ==
    /\ frames[c].pc = "L163"
    /\ SetAccumulator(c, [Accumulator(c) EXCEPT !.general_advice = @ \o RainGeneral])
    /\ Step(c, [frames[c] EXCEPT !.pc = "L176"])
    /\ Untouched

\* lines 169-173
ExtendClear(c) ==
    /\ frames[c].pc = "L169"
    /\ SetAccumulator(c, [Accumulator(c) EXCEPT !.general_advice = @ \o ClearGeneral])
    /\ Step(c, [frames[c] EXCEPT !.pc = "L176"])
    /\ Untouched

\* line 176
TestAirQuality(c) ==
    /\ frames[c].pc = "L176"
    /\ Step(c, [frames[c] EXCEPT !.pc =
                   IF Get(heap[frames[c].weather_data], "air_quality", 0) > 100
                   THEN "L177" ELSE "L181"])
    /\ UNCHANGED heap
    /\ Untouched

\* line 177
AppendOverride(c) ==
    /\ frames[c].pc = "L177"
    /\ SetAccumulator(c, [Accumulator(c) EXCEPT
                             !.health_advice = Append(@, MaskOverride)])
    /\ Step(c, [frames[c] EXCEPT !.pc = "L178"])
    /\ Untouched

\* lines 178-179
FilterActivities(c) ==
    /\ frames[c].pc = "L178"
    /\ SetAccumulator(c, [Accumulator(c) EXCEPT
                             !.activities = SelectSeq(@, LAMBDA act : ~IsOutdoor(act))])
    /\ Step(c, [frames[c] EXCEPT !.pc = "L181"])
    /\ Untouched

\* line 181
Return(c) ==
    /\ frames[c].pc = "L181"
    /\ Step(c, [frames[c] EXCEPT !.pc = "return"])
    /\ UNCHANGED heap
    /\ Untouched

NextConcurrent ==
    \E c \in Calls :
        \/ BindLocals(c)
        \/ NewAccumulator(c)
        \/ ChooseBand(c)
        \/ ExtendActivities(c)
        \/ ExtendFood(c)
        \/ ExtendGeneral(c)
        \/ TestProfile(c)
        \/ CallHealth(c)
        \/ ExtendHealth(c)
        \/ TestConditions(c)
        \/ ExtendRain(c)
        \/ ExtendClear(c)
        \/ TestAirQuality(c)
        \/ AppendOverride(c)
        \/ FilterActivities(c)
        \/ Return(c)

SpecConcurrent == InitConcurrent /\ [][NextConcurrent]_vars

(***************************************************************************)
(* Vocabulary of the properties.                                           *)
(***************************************************************************)

InSeq(x, seq) == \E i \in DOMAIN seq : seq[i] = x

Count(x, seq) == Cardinality({i \in DOMAIN seq : seq[i] = x})

Returned(f) == fn = f /\ pc = "return"

AirQualityIndex == Get(weather_data, "air_quality", 0)

\* the band a temperature selects, as section 4.1 of the specification lists them
BandOf(t) == IF t > 35 THEN "hot" ELSE IF t >= 25 THEN "warm" ELSE "mild"

BandActivities(t) ==
    CASE BandOf(t) = "hot" -> HotActivities
      [] BandOf(t) = "warm" -> WarmActivities
      [] BandOf(t) = "mild" -> MildActivities

\* an activity text that names the outdoors, whatever its letter case
MentionsOutdoors(act) ==
    LET lowered == Lower(act)
    IN  \E kw \in {"outdoor", "outside", "beach"} : Contains(kw, lowered)

(***************************************************************************)
(* C1.  For every reading with temperatureC > 35, whatever the rest of the *)
(* reading and the profile, the activities returned by                     *)
(* get_comprehensive_recommendations contain the "Avoid strenuous outdoor  *)
(* activities" entry and contain no sightseeing entry.                     *)
(***************************************************************************)
C1_HotKeepsAvoidEntry ==
    (Returned("get_comprehensive_recommendations") /\ weather_data["temp"] > 35)
    => /\ InSeq(":x: Avoid strenuous outdoor activities", recommendations.activities)
       /\ \A i \in DOMAIN recommendations.activities :
              ~Contains("sightseeing", Lower(recommendations.activities[i]))

(***************************************************************************)
(* C2.  Exactly one of the three food-suggestion templates is produced,    *)
(* and temperatureC alone decides which: hot iff temp > 35, warm iff       *)
(* 25 <= temp <= 35, mild iff temp < 25.                                   *)
(***************************************************************************)
C2_FoodTemplateByTemperatureAlone ==
    Returned("get_comprehensive_recommendations")
    => LET t    == weather_data["temp"]
           food == recommendations.food_suggestions
       IN  /\ Cardinality({tpl \in {HotFood, WarmFood, MildFood} : food = tpl}) = 1
           /\ (food = HotFood) <=> (t > 35)
           /\ (food = WarmFood) <=> (25 <= t /\ t <= 35)
           /\ (food = MildFood) <=> (t < 25)

C2_Witness ==
    /\ Returned("get_comprehensive_recommendations")
    /\ weather_data["temp"] = 25
    /\ AirQualityIndex = 150
    /\ Truthy(user_profile)
    /\ recommendations.food_suggestions = WarmFood

(***************************************************************************)
(* C3.  When airQualityIndex > 100 the activities are exactly the entries  *)
(* of the selected band whose text holds none of "outdoor", "outside",     *)
(* "beach" (case-insensitive), in their original order; when               *)
(* airQualityIndex <= 100 (100 and an absent index included) they are the  *)
(* band's full list.                                                       *)
(***************************************************************************)
C3_AirQualityFilter ==
    Returned("get_comprehensive_recommendations")
    => LET band == BandActivities(weather_data["temp"])
       IN  recommendations.activities =
              IF AirQualityIndex > 100
              THEN SelectSeq(band, LAMBDA act : ~MentionsOutdoors(act))
              ELSE band

C3_Witness ==
    /\ Returned("get_comprehensive_recommendations")
    /\ AirQualityIndex = 150
    /\ BandOf(weather_data["temp"]) = "warm"
    /\ recommendations.activities =
          <<":check: Swimming", ":check: Early morning/late evening walks">>

(***************************************************************************)
(* C4.  With no personalization (profile absent, empty, or holding only    *)
(* unrecognized labels) health_advice is empty if airQualityIndex <= 100   *)
(* and is exactly <<the mask override>> if airQualityIndex > 100.          *)
(***************************************************************************)
NoPersonalization ==
    user_profile = None \/ user_profile = EmptyDict
    \/ user_profile \in UnrecognizedProfiles

C4_NoPersonalizationHealthAdvice ==
    (Returned("get_comprehensive_recommendations") /\ NoPersonalization)
    => recommendations.health_advice =
          IF AirQualityIndex > 100 THEN <<MaskOverride>> ELSE <<>>

C4_Witness ==
    /\ Returned("get_comprehensive_recommendations")
    /\ user_profile \in UnrecognizedProfiles
    /\ user_profile["health_conditions"] # <<>>
    /\ weather_data["temp"] = 31 /\ weather_data["humidity"] = 81
    /\ AirQualityIndex = 150
    /\ recommendations.health_advice = <<MaskOverride>>

(***************************************************************************)
(* C9.  For a profile whose weather_sensitivities hold any of "cold",      *)
(* "heat", "humidity", "air quality" (any order, any letter case), each    *)
(* sensitivity's advice is emitted by get_health_recommendations iff the   *)
(* label is listed and its own threshold holds, whatever the other rules   *)
(* did.                                                                    *)
(***************************************************************************)
SensitivityAdvice(label) ==
    CASE label = "cold" -> ColdAdvice
      [] label = "heat" -> HeatAdvice
      [] label = "humidity" -> HumidityAdvice
      [] label = "air quality" -> AirQualityAdvice

SensitivityThreshold(label) ==
    CASE label = "cold" -> weather_data["temp"] < 10
      [] label = "heat" -> weather_data["temp"] > 28
      [] label = "humidity" -> weather_data["humidity"] > 70
      [] label = "air quality" -> AirQualityIndex > 100

Lists(label) ==
    LET ws == Get(user_profile, "weather_sensitivities", <<>>)
    IN  \E i \in DOMAIN ws : Lower(ws[i]) = label

C9_SensitivitiesIndependent ==
    Returned("get_health_recommendations")
    => \A label \in SensitivityLabels :
          InSeq(SensitivityAdvice(label), health_recs)
          <=> (Lists(label) /\ SensitivityThreshold(label))

C9_Witness ==
    /\ Returned("get_health_recommendations")
    /\ \A label \in SensitivityLabels : Lists(label)
    /\ user_profile["weather_sensitivities"][1] = "Cold"
    /\ weather_data["temp"] = 30 /\ weather_data["humidity"] = 80
    /\ AirQualityIndex = 150
    /\ InSeq(HeatAdvice, health_recs)
    /\ InSeq(HumidityAdvice, health_recs)
    /\ InSeq(AirQualityAdvice, health_recs)
    /\ ~InSeq(ColdAdvice, health_recs)

(***************************************************************************)
(* C10.  Whenever airQualityIndex > 100 the mask override is the last      *)
(* element of health_advice and occurs exactly once, after every           *)
(* profile-derived entry; the profile-derived entries come in rule order   *)
(* (health conditions, then weather sensitivities, then allergies, each in *)
(* the profile's listed order); the "air quality" sensitivity yields its   *)
(* own mask advice as well as the override.                                *)
(***************************************************************************)
\* the label a profile-derived advice comes from, and the list that holds it
Origin(advice) ==
    CASE advice \in {AsthmaHumidityAdvice, AsthmaDampAdvice} ->
            <<"health_conditions", "asthma">>
      [] advice \in {HeartHotAdvice, HeartColdAdvice} ->
            <<"health_conditions", "heart condition">>
      [] advice \in {DiabetesHeatAdvice, DiabetesHumidityAdvice} ->
            <<"health_conditions", "diabetes">>
      [] advice = ColdAdvice -> <<"weather_sensitivities", "cold">>
      [] advice = HeatAdvice -> <<"weather_sensitivities", "heat">>
      [] advice = HumidityAdvice -> <<"weather_sensitivities", "humidity">>
      [] advice = AirQualityAdvice -> <<"weather_sensitivities", "air quality">>
      [] advice = PollenAdvice -> <<"allergies", "pollen">>
      [] advice = DustAdvice -> <<"allergies", "dust">>
      [] OTHER -> <<"none", "none">>

Rank(list) ==
    CASE list = "health_conditions" -> 1
      [] list = "weather_sensitivities" -> 2
      [] list = "allergies" -> 3
      [] OTHER -> 4

\* the labels of a list of the profile, in lower case
Lowered(list) ==
    LET labels == Get(user_profile, list, <<>>)
    IN  [p \in DOMAIN labels |-> Lower(labels[p])]

\* in the lower-cased labels, origin a is listed no later than origin b
ListedNoLater(a, b, labels) ==
    \E p \in DOMAIN labels : \E q \in DOMAIN labels :
        p <= q /\ labels[p] = a /\ labels[q] = b

C10_OverrideLastAfterProfileAdvice ==
    (Returned("get_comprehensive_recommendations") /\ AirQualityIndex > 100)
    => LET ha      == recommendations.health_advice
           n       == Len(ha)
           origin  == [i \in DOMAIN ha |-> Origin(ha[i])]
           lowered == [list \in {"health_conditions", "weather_sensitivities",
                                 "allergies"} |-> Lowered(list)]
       IN  /\ n >= 1
           /\ ha[n] = MaskOverride
           /\ Count(MaskOverride, ha) = 1
           /\ \A i \in 1..(n - 1) :
                 /\ Rank(origin[i][1]) <= 3
                 /\ user_profile # None
                 /\ ListedNoLater(origin[i][2], origin[i][2], lowered[origin[i][1]])
           /\ \A i \in 1..(n - 1) : \A j \in (i + 1)..(n - 1) :
                 /\ Rank(origin[i][1]) <= Rank(origin[j][1])
                 /\ origin[i][1] = origin[j][1]
                    => ListedNoLater(origin[i][2], origin[j][2],
                                     lowered[origin[i][1]])
           /\ (Truthy(user_profile) /\ Lists("air quality"))
              => InSeq(AirQualityAdvice, SubSeq(ha, 1, n - 1))

C10_Witness ==
    /\ Returned("get_comprehensive_recommendations")
    /\ AirQualityIndex = 150
    /\ user_profile = Profile(<<"diabetes", "asthma">>, <<"air quality", "heat">>,
                              <<"Dust">>)
    /\ recommendations.health_advice =
          <<DiabetesHeatAdvice, DiabetesHumidityAdvice, AsthmaHumidityAdvice,
            AsthmaDampAdvice, AirQualityAdvice, HeatAdvice, DustAdvice,
            MaskOverride>>

(***************************************************************************)
(* The lines of a text: what str.split("\n") gives, so the text of n       *)
(* newline characters has n + 1 lines, the last of them empty when the     *)
(* text ends in a newline.                                                 *)
(***************************************************************************)
SplitLines(s) ==
    LET newlines == {i \in 1..Len(s) : SubSeq(s, i, i) = "\n"}
        m        == Cardinality(newlines)
        pos(k)   == IF k = 0 THEN 0
                    ELSE IF k = m + 1 THEN Len(s) + 1
                    ELSE CHOOSE i \in newlines :
                            Cardinality({j \in newlines : j <= i}) = k
    IN  [k \in 1..(m + 1) |-> SubSeq(s, pos(k - 1) + 1, pos(k) - 1)]

Categories == <<"health_advice", "activities", "food_suggestions", "general_advice">>

Heading(cat) ==
    CASE cat = "health_advice" -> HealthHeading
      [] cat = "activities" -> ActivityHeading
      [] cat = "food_suggestions" -> FoodHeading
      [] cat = "general_advice" -> GeneralHeading

\* a category as it is to be shown: nothing, or its heading and then its entries
Shown(cat) ==
    IF recommendations[cat] = <<>> THEN <<>>
    ELSE <<Heading(cat)>> \o recommendations[cat]

\* the index in the lines of the text of the heading of a shown category
HeadingAt(cat, lines) == CHOOSE i \in DOMAIN lines : lines[i] = Heading(cat)

AllEmpty == \A k \in DOMAIN Categories : recommendations[Categories[k]] = <<>>

(***************************************************************************)
(* C5.  format_recommendations emits a category's heading iff the category *)
(* is non-empty, the shown categories in the order health, activities,     *)
(* food, general, each category's entries directly after its heading in    *)
(* their stored order, no line for an empty category, and the empty string *)
(* when all four categories are empty.                                     *)
(***************************************************************************)
C5_HeadingsAndOrder ==
    Returned("format_recommendations")
    => LET lines == SplitLines(text)
       IN  /\ \A k \in DOMAIN Categories :
                 InSeq(Heading(Categories[k]), lines)
                 <=> recommendations[Categories[k]] # <<>>
           /\ SelectSeq(lines, LAMBDA l : l # "") =
                 Shown(Categories[1]) \o Shown(Categories[2])
                 \o Shown(Categories[3]) \o Shown(Categories[4])
           /\ \A k \in DOMAIN Categories :
                 LET cat == Categories[k]
                 IN  recommendations[cat] # <<>>
                     => LET h == HeadingAt(cat, lines)
                        IN  SubSeq(lines, h + 1, h + Len(recommendations[cat]))
                               = recommendations[cat]
           /\ AllEmpty => text = ""

C5_Witness ==
    /\ Returned("format_recommendations")
    /\ recommendations.health_advice = <<>>
    /\ Len(recommendations.activities) = 2
    /\ recommendations.food_suggestions = <<>>
    /\ Len(recommendations.general_advice) = 1
    /\ SplitLines(text) =
          <<ActivityHeading>> \o recommendations.activities \o <<"">>
          \o <<GeneralHeading>> \o recommendations.general_advice

(***************************************************************************)
(* C6.  For every advisory with a non-empty category, each shown section   *)
(* other than the last shown one is followed by exactly one blank          *)
(* separator line, and the last shown section, whichever category it is,   *)
(* is followed by no trailing blank separator line.                        *)
(***************************************************************************)
LastShown ==
    LET shown == {k \in DOMAIN Categories : recommendations[Categories[k]] # <<>>}
    IN  CHOOSE k \in shown : \A m \in shown : m <= k

C6_SeparatorsBetweenSectionsOnly ==
    (Returned("format_recommendations") /\ ~AllEmpty)
    => LET lines == SplitLines(text)
       IN  /\ \A k \in DOMAIN Categories :
                 LET cat == Categories[k]
                     end == HeadingAt(cat, lines) + Len(recommendations[cat])
                 IN  (recommendations[cat] # <<>> /\ k # LastShown)
                     => /\ end + 2 <= Len(lines)
                        /\ lines[end + 1] = ""
                        /\ lines[end + 2] # ""
           /\ lines[Len(lines)] # ""

(***************************************************************************)
(* C7.  In every run of get_weather_with_health_context, whatever the      *)
(* weather fetch and the profile lookup give,                              *)
(* get_comprehensive_recommendations is only invoked with a complete       *)
(* reading and with a profile that is a fetched record or absent; a        *)
(* weather-fetch error value is returned as text without the profile       *)
(* lookup, the engine or the formatter being invoked; after a failed       *)
(* profile lookup the engine is invoked with an absent profile and its     *)
(* formatted output is returned.                                           *)
(***************************************************************************)
Invocations(name) == {i \in DOMAIN trace : trace[i].call = name}

CompleteReading(wd) ==
    /\ {"temp", "humidity", "description", "wind_speed"} \subseteq DOMAIN wd
    /\ "error" \notin DOMAIN wd

WeatherFetchFailed ==
    \E i \in Invocations("get_weather_data") : "error" \in DOMAIN trace[i].returned

ProfileLookupFailed ==
    \E i \in Invocations("get_user_profile") :
        trace[i].outcome.kind \in {"nothing", "exception"}

EndsWith(s, suffix) ==
    /\ Len(suffix) <= Len(s)
    /\ SubSeq(s, Len(s) - Len(suffix) + 1, Len(s)) = suffix

\* the engine was invoked with no profile, the formatter with what the engine
\* returned, and the text returned ends with what the formatter returned
FormattedEngineOutputReturned ==
    \E e \in Invocations("get_comprehensive_recommendations") :
    \E f \in Invocations("format_recommendations") :
        /\ e < f
        /\ trace[e].user_profile = None
        /\ trace[f].recommendations = trace[e].returned
        /\ trace[f].returned # ""
        /\ EndsWith(text, trace[f].returned)

C7_EngineSeesOnlyResolvedInputs ==
    fn = "get_weather_with_health_context"
    => /\ \A e \in Invocations("get_comprehensive_recommendations") :
             /\ CompleteReading(trace[e].weather_data)
             /\ \/ trace[e].user_profile = None
                \/ \E l \in Invocations("get_user_profile") :
                       /\ l < e
                       /\ trace[l].outcome.kind = "result"
                       /\ trace[l].outcome.data = trace[e].user_profile
       /\ WeatherFetchFailed
          => /\ Invocations("get_user_profile") = {}
             /\ Invocations("get_comprehensive_recommendations") = {}
             /\ Invocations("format_recommendations") = {}
             /\ pc = "return" => text = ErrorText
       /\ ProfileLookupFailed
          => /\ \A e \in Invocations("get_comprehensive_recommendations") :
                   trace[e].user_profile = None
             /\ pc = "return" => FormattedEngineOutputReturned

C7_Witness ==
    /\ fn = "get_weather_with_health_context"
    /\ pc = "return"
    /\ \E i \in Invocations("get_user_profile") : trace[i].outcome.kind = "exception"
    /\ FormattedEngineOutputReturned
    /\ text # ErrorText

(***************************************************************************)
(* C8.  get_comprehensive_recommendations keeps no state across calls:     *)
(* two calls with identical inputs return identical advisories; when two   *)
(* calls run with their steps interleaved in any order each returns        *)
(* exactly what it returns when run alone; and neither the reading nor the *)
(* profile passed in is changed by a call.                                 *)
(***************************************************************************)
Alone(c) ==
    GetComprehensiveRecommendations(frames[c].given.weather_data,
                                    frames[c].given.user_profile)

C8_CallsDoNotInterfere ==
    pc = "concurrent"
    => /\ \A c \in Calls :
             /\ frames[c].pc = "return" => Accumulator(c) = Alone(c)
             /\ heap[frames[c].weather_data] = frames[c].given.weather_data
             /\ heap[frames[c].user_profile] = frames[c].given.user_profile
       /\ \A c \in Calls : \A d \in Calls :
             (/\ frames[c].pc = "return" /\ frames[d].pc = "return"
              /\ frames[c].given = frames[d].given)
             => Accumulator(c) = Accumulator(d)

C8_Witness ==
    /\ pc = "concurrent"
    /\ \A c \in Calls : frames[c].pc = "return" /\ frames[c].overlapped
    /\ frames[1].recommendations # frames[2].recommendations
    /\ frames[1].given # frames[2].given
    /\ Accumulator(1) # Accumulator(2)
    /\ Accumulator(1).health_advice # <<>>
    /\ Accumulator(2) = Alone(2)

====
